---- MODULE Spec2Model ----
(***************************************************************************)
(* State-machine model of dace/transformation/auto/auto_optimize.py:       *)
(* greedy_fuse (the Greedy Fusion Engine), tile_wcrs (the Write-Conflict   *)
(* Tiler), find_fast_library and set_fast_implementations (the             *)
(* Implementation Selector), move_small_arrays_to_stack (the Storage       *)
(* Reclassifier) and auto_optimize (the Optimization Pipeline).            *)
(*                                                                         *)
(* greedy_fuse is recursive; the model runs it on an explicit call stack,  *)
(* one frame per activation.  The program is a forest of parallel scopes   *)
(* (maps) in two regions: the single state of the top-level program and    *)
(* the single state of one optional nested subprogram.                     *)
(***************************************************************************)
EXTENDS Integers, Sequences, FiniteSets, TLC

\* ------------------------------------------------------------------ bounds
MaxMaps == 4
MaxLabels == 2
NumCalls == 2

\* ------------------------------------------------------- program structure
Maps == 1..MaxMaps
Labels == 1..MaxLabels
\* The state of the top-level SDFG, the state of the nested SDFG, and the
\* marker for "the program holds no NestedSDFG node".
TopState == 0
NestedState == -1
NoNode == -2
Devices == {"CPU", "GPU"}

VARIABLES
    parent,      \* map -> enclosing scope: a map, TopState or NestedState
    alive,       \* the maps that exist in the program
    label,       \* map -> fusibility class reported by the enumerator
    nsdfgAt,     \* scope holding the NestedSDFG node, or NoNode
    allowTilingDefault,        \* CompositeFusion.allow_tiling._default
    scheduleInnermapsDefault,  \* CompositeFusion.schedule_innermaps._default
    stencilUnrollDefault,      \* CompositeFusion.stencil_unroll_loops._default
    stack,       \* activations of greedy_fuse, innermost last
    ncalls,      \* top-level greedy_fuse calls started so far
    curArgs,     \* device, recursive, tile of the running / last top-level call
    repeat,      \* the running top-level call repeats the arguments of the one before
    fusions,     \* CompositeFusion applications since the top-level call began
    lastReq,     \* the CompositeFusion request applied last, with its caller
    \* ---- tile_wcrs
    sizes,       \* map -> mapentry.map.range.size(), one entry per dimension
    schedule,    \* map -> mapentry.map.schedule
    tpc,         \* position of tile_wcrs
    callKind,    \* what the caller passed: "sdfg" or "state"
    callPrefer,  \* the caller's prefer_partial_parallelism: None, True, False
    prefer,      \* prefer_partial_parallelism as the state-level call holds it
    scanned,     \* edges of graph_or_subgraph.edges() read so far
    anyWcr,      \* some edge read so far carried a write-conflict combinator
    edges_to_consider,  \* the retained edges, each with its conflict reason
    maps_left,   \* maps the extraction loop has still to visit
    edges_left,  \* retained edges the tiling loop has still to visit
    transformed, \* the set "transformed" of line 192
    extracted,   \* map -> dimensions hoisted by extract_map_dims
    tiled,       \* map -> number of MapTiling applications
    buffers,     \* map -> what was inserted for the edge leaving its exit
    tgraph,      \* the state whose edges the running tile_wcrs call reads
    nedges,      \* state -> number of data edges it holds
    outEdge,     \* map -> the edge leaving the map's exit node
    \* ---- find_fast_library, set_fast_implementations
    device,      \* the target device
    installed,   \* vendor libraries whose is_installed() answers true
    libnodes,    \* library node -> its kind, placement and default_implementation
    kindImpls,   \* kind -> type(node).implementations
    implementation,  \* library node -> node.implementation
    present,     \* the library nodes not yet expanded
    blocklist,   \* the blocklist argument: "None" or a set of names
    ignore_types,    \* the ignore_types argument / the set of line 422
    fast_library,    \* what find_fast_library(device) returned last
    implementation_prio,  \* the list of lines 338-343
    spc,         \* position of a direct set_fast_implementations call
    \* ---- move_small_arrays_to_stack
    arrays,      \* array -> its descriptor
    arrays0,     \* the descriptors as they were at the start
    rpc,         \* position of a direct move_small_arrays_to_stack call
    \* ---- auto_optimize
    wcr_nonatomic,   \* state -> the wcr_nonatomic flag of its data edge
    wcr_nonatomic0,  \* the flags as they were at the start
    opts,        \* validate, validate_all, subgraph_fuse, trivial_fuse, auto_parallelize
    ppc,         \* position of auto_optimize
    trace,       \* the stages auto_optimize has run, in order
    tile_todo,   \* the programs line 489 has still to hand to tile_wcrs
    forced       \* library nodes line 432 set to 'CUDA (device)'

fuseVars == <<parent, alive, label, nsdfgAt, allowTilingDefault,
              scheduleInnermapsDefault, stencilUnrollDefault, stack, ncalls,
              curArgs, repeat, fusions, lastReq>>
tilerVars == <<sizes, schedule, tpc, callKind, callPrefer, prefer, scanned,
               anyWcr, edges_to_consider, maps_left, edges_left, transformed,
               extracted, tiled, buffers, tgraph, nedges, outEdge>>
pipeVars == <<device, installed, libnodes, kindImpls, implementation, present,
              blocklist, ignore_types, fast_library, implementation_prio, spc,
              arrays, arrays0, rpc, wcr_nonatomic, wcr_nonatomic0, opts, ppc,
              trace, tile_todo, forced>>
\* The pipeline's variables other than its record of the stages run.
pipeButTrace == <<device, installed, libnodes, kindImpls, implementation,
                  present, blocklist, ignore_types, fast_library,
                  implementation_prio, spc, arrays, arrays0, rpc,
                  wcr_nonatomic, wcr_nonatomic0, opts, ppc, tile_todo, forced>>
vars == <<fuseVars, tilerVars, pipeVars>>

\* ------------------------------------------------------------------ helpers
Min(S) == CHOOSE x \in S : \A y \in S : x <= y

RECURSIVE RegionOf(_, _)
\* The state a scope lies in, following the scope tree upwards.
RegionOf(par, n) == IF n \in DOMAIN par THEN RegionOf(par, par[n]) ELSE n

RECURSIVE InScope(_, _, _)
\* n lies in the body of scope g (graph.scope_subgraph(g)) or is g itself.
InScope(par, n, g) ==
    IF n = g THEN TRUE
    ELSE IF n \in DOMAIN par THEN InScope(par, par[n], g)
    ELSE FALSE

\* Top-level parallel scopes of a (sub)graph whose enclosing scope is s.
TopScopes(s) == {m \in alive : parent[m] = s}

RECURSIVE SortSets(_)
SortSets(S) ==
    IF S = {} THEN <<>>
    ELSE LET first == CHOOSE c \in S : \A d \in S : Min(c) <= Min(d)
         IN <<first>> \o SortSets(S \ {first})

Reverse(s) == [i \in 1..Len(s) |-> s[Len(s) + 1 - i]]

\* GreedyEnumerator(sdfg, graph, subgraph, reverse) on the graph with scopes
\* al and enclosing scopes par: a finite sequence of nonempty candidate-sets
\* of scope entries judged mergeable (lab), each entry yielded once; reversed
\* order in tile mode.  The judgement is the one of the graph as it is: a
\* scope that a rewrite produces is judged anew, so the sets a later
\* enumeration yields need not be those of an earlier one.
\* The sets are formed when the enumerator is built; forming them one at a
\* time as the loop asks for them yields the same sequence, since between
\* two requests the loop rewrites only scopes already yielded and scope
\* bodies.
GreedyEnumerator(al, par, lab, s, reverse) ==
    LET top == {m \in al : par[m] = s}
        classes == {{m \in top : lab[m] = l} : l \in Labels} \ {{}}
        seq == SortSets(classes)
    IN IF reverse THEN Reverse(seq) ELSE seq

\* The programs whose states a rewrite applied to program sd may match in:
\* sd itself and the programs nested in it.
ProgramsUnder(sd) == IF sd = TopState THEN {TopState, NestedState} ELSE {sd}

\* sdfg.apply_transformations_repeated(MapFusion): the outcomes are the ways
\* of merging sibling scopes of the program, each merged group into its
\* first member; rep maps every scope to the scope it ends up in.
MapFusionOutcomes(sd) ==
    {rep \in [alive -> alive] :
        \A m \in alive :
            /\ rep[m] <= m
            /\ rep[rep[m]] = rep[m]
            /\ rep[m] # m =>
                   /\ parent[rep[m]] = parent[m]
                   /\ RegionOf(parent, m) \in ProgramsUnder(sd)}

\* The scopes that took others in.
Merged(rep) == {m \in alive : \E k \in alive : k # m /\ rep[k] = m}

\* The graph after the merges rep; the merged scopes are judged anew.
ApplyMerges(rep) ==
    LET left == {m \in alive : rep[m] = m}
    IN /\ alive' = left
       /\ parent' = [m \in left |-> IF parent[m] \in alive
                                    THEN rep[parent[m]] ELSE parent[m]]
       /\ nsdfgAt' = IF nsdfgAt \in alive THEN rep[nsdfgAt] ELSE nsdfgAt
       /\ \E lab \in [left -> Labels] :
             /\ \A m \in left \ Merged(rep) : lab[m] = label[m]
             /\ label' = lab

\* cf = CompositeFusion(current_subgraph): the request takes the class-level
\* property defaults current at construction.
CompositeFusion(f) ==
    [applied |-> TRUE,
     allow_tiling |-> allowTilingDefault,
     schedule_innermaps |-> scheduleInnermapsDefault,
     stencil_unroll_loops |-> stencilUnrollDefault,
     tile |-> f.tile, dev |-> f.dev, kind |-> f.kind]

NoRequest ==
    [applied |-> FALSE, allow_tiling |-> FALSE, schedule_innermaps |-> "None",
     stencil_unroll_loops |-> FALSE, tile |-> FALSE, dev |-> "CPU",
     kind |-> "none"]

NoArgs == [dev |-> "none", rec |-> FALSE, tile |-> FALSE]

Frame(kind, scope, va, dev, rec, tile) ==
    [kind |-> kind, scope |-> scope, va |-> va, dev |-> dev, rec |-> rec,
     tile |-> tile, pc |-> "start", cands |-> <<>>, applied |-> 0,
     todo |-> IF kind = "sdfg" THEN <<scope>> ELSE <<>>,
     vstep |-> 0, vend |-> 0]

Top == stack[Len(stack)]
Replace(f) == [stack EXCEPT ![Len(stack)] = f]
Pop == SubSeq(stack, 1, Len(stack) - 1)

\* The recursive call of lines 99-102 passes validate_all only: device,
\* recursive and tile take the defaults of the signature.
DescendFrame(f, entry) == Frame("sub", entry, f.va, "CPU", TRUE, FALSE)

\* Whether the per-fusion validation of line 94 runs.
ValidatesEachStep(f) == TRUE

\* Whether the closing validation of lines 119-120 runs.
ValidatesAtEnd(f) == f.va

AdvanceStuck(cands) == cands

\* The candidate-sets left after one iteration of the loop of line 85.
Advance(cands) == Tail(cands)

\* NestedSDFG nodes among graph_or_subgraph.nodes() (line 104).
NestedNodes(f) ==
    IF nsdfgAt = NoNode THEN <<>>
    ELSE IF f.kind = "state"
         THEN (IF f.scope = TopState THEN <<NestedState>> ELSE <<>>)
         ELSE (IF InScope(parent, nsdfgAt, f.scope) THEN <<NestedState>>
               ELSE <<>>)

\* ------------------------------------------------------------------- Init
WellFormed(par, nat) ==
    /\ \A m \in DOMAIN par :
          par[m] \in {TopState, NestedState} \cup 1..(m - 1)
    /\ nat \in {NoNode, TopState} \cup DOMAIN par
    /\ nat \in DOMAIN par => RegionOf(par, nat) = TopState
    /\ nat = NoNode => \A m \in DOMAIN par : RegionOf(par, m) = TopState

\* Class names carry no meaning: the classes are numbered in order of their
\* first member.
Canonical(lab) ==
    \A m \in DOMAIN lab : \A l \in 1..(lab[m] - 1) : \E k \in 1..(m - 1) : lab[k] = l

\* The tiler at rest, on a graph without write-conflicted maps.
TilerIdle ==
    /\ sizes = <<>>
    /\ schedule = <<>>
    /\ tpc = "off"
    /\ callKind = "none"
    /\ callPrefer = "None"
    /\ prefer = "None"
    /\ scanned = 0
    /\ anyWcr = FALSE
    /\ edges_to_consider = {}
    /\ maps_left = {}
    /\ edges_left = {}
    /\ transformed = {}
    /\ extracted = <<>>
    /\ tiled = <<>>
    /\ buffers = <<>>
    /\ tgraph = TopState
    /\ nedges = [g \in {TopState, NestedState} |-> 0]
    /\ outEdge = <<>>

NoOpts ==
    [validate |-> FALSE, validate_all |-> FALSE, subgraph_fuse |-> FALSE,
     trivial_fuse |-> FALSE, auto_parallelize |-> FALSE]

NoBlocklist == [none |-> TRUE, names |-> {}]

\* No library node, no array, and neither the selector, the reclassifier nor
\* the pipeline running.
PipelineIdle ==
    /\ device = "none"
    /\ installed = {}
    /\ libnodes = <<>>
    /\ kindImpls = <<>>
    /\ implementation = <<>>
    /\ present = {}
    /\ blocklist = NoBlocklist
    /\ ignore_types = {}
    /\ fast_library = <<>>
    /\ implementation_prio = <<>>
    /\ spc = "off"
    /\ arrays = <<>>
    /\ arrays0 = <<>>
    /\ rpc = "off"
    /\ wcr_nonatomic = <<>>
    /\ wcr_nonatomic0 = <<>>
    /\ opts = NoOpts
    /\ ppc = "off"
    /\ trace = <<>>
    /\ tile_todo = <<>>
    /\ forced = {}

\* Two scopes at the top of the program's state, every further scope alone
\* in the body of one of the two.
TwoWithBodies == [m \in Maps |-> IF m <= 2 THEN TopState ELSE 2 - (m % 2)]

\* The programs a call is given: every program of MaxMaps - 1 scopes, and
\* the programs of MaxMaps scopes shaped as TwoWithBodies.
InitFuse ==
    /\ \/ /\ alive = 1..(MaxMaps - 1)
          /\ label \in [alive -> Labels]
          /\ parent \in [alive -> {TopState, NestedState} \cup alive]
          /\ nsdfgAt \in {NoNode, TopState} \cup alive
       \/ /\ alive = Maps
          /\ label \in [Maps -> Labels]
          /\ parent = TwoWithBodies
          /\ nsdfgAt = NoNode
    /\ Canonical(label)
    /\ WellFormed(parent, nsdfgAt)
    /\ allowTilingDefault = FALSE
    /\ scheduleInnermapsDefault = "None"
    /\ stencilUnrollDefault = FALSE
    /\ stack = <<>>
    /\ ncalls = 0
    /\ curArgs = NoArgs
    /\ repeat = FALSE
    /\ fusions = 0
    /\ lastReq = NoRequest
    /\ TilerIdle
    /\ PipelineIdle

\* ---------------------------------------------------------------- actions
\* greedy_fuse(sdfg, validate_all, device, recursive, tile) is entered on the
\* whole program.
StartFuse(va, dev, rec, tile) ==
    /\ stack' = <<Frame("sdfg", TopState, va, dev, rec, tile)>>
    /\ curArgs' = [dev |-> dev, rec |-> rec, tile |-> tile]
    /\ repeat' = (curArgs = [dev |-> dev, rec |-> rec, tile |-> tile])
    /\ ncalls' = ncalls + 1
    /\ fusions' = 0
    /\ lastReq' = NoRequest
    /\ UNCHANGED <<parent, alive, label, nsdfgAt, allowTilingDefault,
                   scheduleInnermapsDefault, stencilUnrollDefault>>

\* A caller invokes greedy_fuse on the whole program.
FuseCall ==
    /\ stack = <<>>
    /\ ncalls < NumCalls
    /\ \E va \in BOOLEAN, dev \in Devices, rec \in BOOLEAN, tile \in BOOLEAN :
          StartFuse(va, dev, rec, tile)
    /\ UNCHANGED <<tilerVars, pipeVars>>

\* Lines 43-56: an SDFG activation applies the strict transformations and
\* MapFusion to the program, then recurses into its state.  The strict
\* transformations merge no scopes; the programs of this model are ones they
\* leave as they are, so only their run is recorded.
SdfgRecurse ==
    /\ stack # <<>>
    /\ Top.kind = "sdfg"
    /\ Top.todo # <<>>
    /\ \E rep \in MapFusionOutcomes(Top.scope) : ApplyMerges(rep)
    /\ trace' = trace \o <<"simplify", "map_fusion">>
    /\ LET f == Top
       IN stack' = Append(Replace([f EXCEPT !.todo = Tail(f.todo)]),
                          Frame("state", Head(f.todo), f.va, f.dev, f.rec,
                                f.tile))
    /\ UNCHANGED <<allowTilingDefault, scheduleInnermapsDefault,
                   stencilUnrollDefault, ncalls, curArgs, repeat, fusions,
                   lastReq, tilerVars, pipeButTrace>>

SdfgReturn ==
    /\ stack # <<>>
    /\ Top.kind = "sdfg"
    /\ Top.todo = <<>>
    /\ stack' = Pop
    /\ UNCHANGED <<parent, alive, label, nsdfgAt, allowTilingDefault,
                   scheduleInnermapsDefault, stencilUnrollDefault, ncalls,
                   curArgs, repeat, fusions, lastReq, tilerVars, pipeVars>>

\* Lines 59-83: for a state, apply MapFusion to its program; build the
\* enumerator and write the class-level defaults.
EnterGraph ==
    /\ stack # <<>>
    /\ Top.kind \in {"state", "sub"}
    /\ Top.pc = "start"
    /\ LET f == Top
       IN /\ IF f.kind = "state"
             THEN /\ \E rep \in MapFusionOutcomes(f.scope) : ApplyMerges(rep)
                  /\ trace' = Append(trace, "map_fusion")
             ELSE UNCHANGED <<parent, alive, label, nsdfgAt, trace>>
          /\ stack' = Replace([f EXCEPT !.pc = "loop",
                                 !.cands = GreedyEnumerator(alive', parent',
                                               label', f.scope, f.tile)])
          /\ IF f.tile
             THEN /\ allowTilingDefault' = TRUE
                  /\ scheduleInnermapsDefault' = "Sequential"
                  /\ stencilUnrollDefault' =
                        IF f.dev = "GPU" THEN TRUE ELSE stencilUnrollDefault
             ELSE /\ allowTilingDefault' = FALSE
                  /\ UNCHANGED <<scheduleInnermapsDefault,
                                 stencilUnrollDefault>>
    /\ UNCHANGED <<ncalls, curArgs, repeat, fusions, lastReq, tilerVars,
                   pipeButTrace>>

\* Lines 85-102, one iteration on a candidate-set with more than one member:
\* apply the composite fusion, validate, count, and descend if recursive.
\* The set becomes one scope, which is judged anew.
FuseCandidates ==
    /\ stack # <<>>
    /\ Top.kind \in {"state", "sub"}
    /\ Top.pc = "loop"
    /\ Top.cands # <<>>
    /\ Cardinality(Head(Top.cands)) > 1
    /\ LET f == Top
           G == Head(f.cands)
           g == Min(G)
           f2 == [f EXCEPT !.cands = Advance(f.cands),
                           !.applied = f.applied + 1,
                           !.vstep = IF ValidatesEachStep(f)
                                     THEN f.vstep + 1 ELSE f.vstep]
       IN /\ lastReq' = CompositeFusion(f)
          /\ alive' = alive \ (G \ {g})
          /\ parent' = [m \in alive \ (G \ {g}) |->
                          IF parent[m] \in G THEN g ELSE parent[m]]
          /\ \E l \in Labels :
                label' = [m \in alive \ (G \ {g}) |->
                             IF m = g THEN l ELSE label[m]]
          /\ nsdfgAt' = IF nsdfgAt \in G THEN g ELSE nsdfgAt
          /\ fusions' = fusions + 1
          /\ stack' = IF f.rec
                      THEN Append(Replace(f2), DescendFrame(f, g))
                      ELSE Replace(f2)
    /\ UNCHANGED <<allowTilingDefault, scheduleInnermapsDefault,
                   stencilUnrollDefault, ncalls, curArgs, repeat,
                   tilerVars, pipeVars>>

\* Lines 85-102, one iteration on a singleton candidate-set.
SkipSingleton ==
    /\ stack # <<>>
    /\ Top.kind \in {"state", "sub"}
    /\ Top.pc = "loop"
    /\ Top.cands # <<>>
    /\ Cardinality(Head(Top.cands)) = 1
    /\ LET f == Top
           g == Min(Head(f.cands))
           f2 == [f EXCEPT !.cands = Advance(f.cands)]
       IN stack' = IF f.rec
                   THEN Append(Replace(f2), DescendFrame(f, g))
                   ELSE Replace(f2)
    /\ UNCHANGED <<parent, alive, label, nsdfgAt, allowTilingDefault,
                   scheduleInnermapsDefault, stencilUnrollDefault, ncalls,
                   curArgs, repeat, fusions, lastReq, tilerVars, pipeVars>>

\* The enumerator is exhausted: collect the NestedSDFG nodes (line 104).
EndLoop ==
    /\ stack # <<>>
    /\ Top.kind \in {"state", "sub"}
    /\ Top.pc = "loop"
    /\ Top.cands = <<>>
    /\ stack' = Replace([Top EXCEPT !.pc = "nested", !.todo = NestedNodes(Top)])
    /\ UNCHANGED <<parent, alive, label, nsdfgAt, allowTilingDefault,
                   scheduleInnermapsDefault, stencilUnrollDefault, ncalls,
                   curArgs, repeat, fusions, lastReq, tilerVars, pipeVars>>

\* Lines 104-110: recurse into a nested subprogram with the call's arguments.
NestedRecurse ==
    /\ stack # <<>>
    /\ Top.kind \in {"state", "sub"}
    /\ Top.pc = "nested"
    /\ Top.todo # <<>>
    /\ LET f == Top
       IN stack' = Append(Replace([f EXCEPT !.todo = Tail(f.todo)]),
                          Frame("sdfg", Head(f.todo), f.va, f.dev, f.rec,
                                f.tile))
    /\ UNCHANGED <<parent, alive, label, nsdfgAt, allowTilingDefault,
                   scheduleInnermapsDefault, stencilUnrollDefault, ncalls,
                   curArgs, repeat, fusions, lastReq, tilerVars, pipeVars>>

\* Lines 112-120: report, and validate when validate_all is set.
FinishGraph ==
    /\ stack # <<>>
    /\ Top.kind \in {"state", "sub"}
    /\ Top.pc = "nested"
    /\ Top.todo = <<>>
    /\ stack' = Replace([Top EXCEPT !.pc = "ret",
                           !.vend = IF ValidatesAtEnd(Top)
                                    THEN Top.vend + 1 ELSE Top.vend])
    /\ UNCHANGED <<parent, alive, label, nsdfgAt, allowTilingDefault,
                   scheduleInnermapsDefault, stencilUnrollDefault, ncalls,
                   curArgs, repeat, fusions, lastReq, tilerVars, pipeVars>>

GraphReturn ==
    /\ stack # <<>>
    /\ Top.kind \in {"state", "sub"}
    /\ Top.pc = "ret"
    /\ stack' = Pop
    /\ UNCHANGED <<parent, alive, label, nsdfgAt, allowTilingDefault,
                   scheduleInnermapsDefault, stencilUnrollDefault, ncalls,
                   curArgs, repeat, fusions, lastReq, tilerVars, pipeVars>>

NextFuse ==
    \/ FuseCall
    \/ SdfgRecurse
    \/ SdfgReturn
    \/ EnterGraph
    \/ FuseCandidates
    \/ SkipSingleton
    \/ EndLoop
    \/ NestedRecurse
    \/ FinishGraph
    \/ GraphReturn

SpecFuse == InitFuse /\ [][NextFuse]_vars

\* greedy_fuse is sequential code: an enabled step is always taken.
FairFuse == SpecFuse /\ WF_vars(NextFuse)

\* ------------------------------------------------- properties: greedy_fuse
\* C1: every composite-fusion request a call applies has allow-tiling equal
\* to that call's tile mode, for every candidate-set of the enumeration and
\* for both values of recursive.
C1_AllowTilingIsTileMode ==
    lastReq.applied => (lastReq.allow_tiling = lastReq.tile)

\* C2: a request has unroll-inner-loops set only if its call is in tile mode
\* for a GPU device, and a sequential inner schedule only if its call is in
\* tile mode; nothing carries over from an earlier call.
C2_NoCarryOver ==
    lastReq.applied =>
        /\ lastReq.stencil_unroll_loops => (lastReq.tile /\ lastReq.dev = "GPU")
        /\ lastReq.schedule_innermaps = "Sequential" => lastReq.tile

\* C3: in a call on a region or sub-region, a fusion is followed by a
\* validation only when validate_all is set; without validate_all the
\* validator runs exactly once at the end if a fusion was applied, and not at
\* all otherwise.
C3_ValidationPolicy ==
    \A i \in 1..Len(stack) :
        LET f == stack[i]
        IN (f.kind \in {"state", "sub"} /\ f.pc = "ret" /\ ~f.va) =>
              /\ f.vstep = 0
              /\ f.applied > 0 => f.vend = 1
              /\ f.applied = 0 => f.vend = 0

ScopesUnder(al, par, s) == Cardinality({m \in al : par[m] = s})

NoMultiIn(s) ==
    \A l \in Labels : Cardinality({m \in TopScopes(s) : label[m] = l}) <= 1

Returned == stack = <<>> /\ ncalls > 0

\* C5: a second run with the same arguments applies no fusion, and after a
\* run no multi-member candidate-set is left in any region, scope body or
\* nested subprogram.
C5_FixedPointEverywhere ==
    /\ repeat => fusions = 0
    /\ Returned => \A s \in {TopState, NestedState} \cup alive : NoMultiIn(s)

\* ================================================================ tile_wcrs
\* ------------------------------------------------------------------ bounds
NumTMaps == 2
MaxDims == 2
MaxEdges == 2
\* config 'optimizer.autotile_size' (line 183)
TileSize == 3

TMaps == 1..NumTMaps
\* A map entry outside graph_or_subgraph, and a conflict reason that is no
\* EntryNode.
OutsideMap == NumTMaps + 1
OtherNode == -1
NoReason == 0

\* A size is a concrete integer or an unresolved symbolic expression.
Concrete(n) == [sym |-> FALSE, val |-> n]
Symbolic == [sym |-> TRUE, val |-> 0]
SizeValues ==
    {Concrete(TileSize - 1), Concrete(TileSize), Concrete(TileSize + 1),
     Symbolic}
Ranges == UNION {[1..n -> SizeValues] : n \in 1..MaxDims}
Dims(m) == 1..Len(sizes[m])

WcrKinds == {"None", "Sum", "Custom"}
SrcKinds == {"Tasklet", "ExitNode", "NestedSDFG"}
DstKinds == {"ExitNode", "EntryNode"}
Reasons == {NoReason, OtherNode, OutsideMap} \cup TMaps

\* dtypes.reduction_identity(dtype, operations.detect_reduction_type(wcr))
reduction_identity(wcr) ==
    IF wcr = "Sum" THEN "0" ELSE "None"

IsEntryNode(r) == r \in TMaps \cup {OutsideMap}

ConsideredNoIdentityCheck(e) ==
    /\ e.wcr # "None"
    /\ ~(e.src \in {"ExitNode", "NestedSDFG"} \/ e.dst = "EntryNode")
    /\ ~(e.reason = NoReason \/ ~IsEntryNode(e.reason))
    /\ e.reason \in TMaps

ConsideredNoWcrCheck(e) ==
    /\ ~(e.src \in {"ExitNode", "NestedSDFG"} \/ e.dst = "EntryNode")
    /\ ~(e.reason = NoReason \/ ~IsEntryNode(e.reason))
    /\ e.reason \in TMaps

\* Lines 160-181: the filters an edge passes to enter edges_to_consider.
Considered(e) ==
    /\ e.wcr # "None"
    /\ ~(e.src \in {"ExitNode", "NestedSDFG"} \/ e.dst = "EntryNode")
    /\ ~(e.reason = NoReason \/ ~IsEntryNode(e.reason))
    /\ e.reason \in TMaps
    /\ reduction_identity(e.wcr) # "None"

RECURSIVE ProdOver(_, _)
\* dt._prod of the sizes of the dimensions in D; symbolic if a factor is.
ProdOver(sz, D) ==
    IF D = {} THEN Concrete(1)
    ELSE LET i == CHOOSE j \in D : TRUE
             rest == ProdOver(sz, D \ {i})
         IN IF sz[i].sym \/ rest.sym THEN Symbolic
            ELSE Concrete(sz[i].val * rest.val)

\* The three-valued SymPy comparison a < b against a concrete b.
Lt3(a, b) == IF a.sym THEN "indet" ELSE IF a.val < b THEN "true" ELSE "false"

Leq3(a, b) == IF a.sym THEN "indet" ELSE IF a.val <= b THEN "true" ELSE "false"

SmallRangeLeq(m, dims) == Leq3(ProdOver(sizes[m], dims), TileSize) = "true"

\* Lines 212-213: (prod of the extracted dimensions < tile_size) == True.
SmallRange(m, dims) == Lt3(ProdOver(sizes[m], dims), TileSize) = "true"

SmallerThanTileProduct(m) ==
    Leq3(ProdOver(sizes[m], Dims(m)), TileSize) = "true"

SmallerThanTileIndet(m) ==
    \A i \in Dims(m) : Lt3(sizes[m][i], TileSize) # "false"

\* Line 228: all((s < tile_size) == True for s in mapentry.map.range.size()).
SmallerThanTile(m) ==
    \A i \in Dims(m) : Lt3(sizes[m][i], TileSize) = "true"

\* Lines 199-206 for map entry m: the parameters no retained edge conflicts on.
NonconflictedDims(m) ==
    Dims(m) \ UNION {e.cdims : e \in {x \in edges_to_consider : x.reason = m}}

\* Line 150: the call a program-level activation makes for each state.
StatePrefer(kind, p) == IF kind = "sdfg" THEN "None" ELSE p

\* Lines 245-272 for the edge leaving the tiled map's exit.  Line 245 looks
\* the edge's data up in sdfg.arrays before anything else: an empty memlet
\* names no data and the lookup raises KeyError.
OutEdgeTransform(o) ==
    IF o.empty THEN "KeyError"
    ELSE IF o.stream
    THEN (IF o.shapeOK THEN "StreamTransient" ELSE "none")
    ELSE IF o.empty \/ o.wcr = "None" \/ o.nonatomic
            \/ (o.dstElements /\ o.dynamic)
         THEN "none"
    ELSE IF reduction_identity(o.wcr) = "None" THEN "none"
    ELSE "AccumulateTransient"

\* stream: the edge's data is a Stream (read for a non-empty memlet only);
\* shapeOK: the memlet path has three hops and starts at a tasklet;
\* dstElements: dst_subset is given and has elements.
OutEdges ==
    [stream : BOOLEAN, shapeOK : BOOLEAN, empty : BOOLEAN, wcr : WcrKinds,
     nonatomic : BOOLEAN, dstElements : BOOLEAN, dynamic : BOOLEAN]

\* A write-conflicted edge to a plain array: not empty, not dynamic, atomic.
PlainOutEdge ==
    [stream |-> FALSE, shapeOK |-> FALSE, empty |-> FALSE, wcr |-> "Sum",
     nonatomic |-> FALSE, dstElements |-> TRUE, dynamic |-> FALSE]

AlreadyTransformedNever(m) == FALSE

\* Line 222: mapentry in transformed.
AlreadyTransformed(m) == m \in transformed

\* Map identities carry no meaning: the maps are listed in order of their
\* ranges.
RangeCode(r) ==
    LET digit(x) == IF x.sym THEN 0 ELSE x.val
    IN Len(r) * (TileSize + 2) * (TileSize + 2)
       + digit(r[1]) * (TileSize + 2)
       + (IF Len(r) > 1 THEN digit(r[2]) ELSE 0)

InitTile ==
    /\ alive = Maps
    /\ label = [m \in Maps |-> 1]
    /\ parent = [m \in Maps |-> TopState]
    /\ nsdfgAt = NoNode
    /\ allowTilingDefault = FALSE
    /\ scheduleInnermapsDefault = "None"
    /\ stencilUnrollDefault = FALSE
    /\ stack = <<>>
    /\ ncalls = 0
    /\ curArgs = NoArgs
    /\ repeat = FALSE
    /\ fusions = 0
    /\ lastReq = NoRequest
    /\ schedule = [m \in TMaps |-> "Default"]
    /\ tpc = "idle"
    /\ callKind = "none"
    /\ callPrefer = "None"
    /\ prefer = "None"
    /\ scanned = 0
    /\ anyWcr = FALSE
    /\ edges_to_consider = {}
    /\ maps_left = {}
    /\ edges_left = {}
    /\ transformed = {}
    /\ extracted = [m \in TMaps |-> {}]
    /\ tiled = [m \in TMaps |-> 0]
    /\ buffers = [m \in TMaps |-> "none"]
    /\ tgraph = TopState
    /\ nedges \in [{TopState, NestedState} -> 0..MaxEdges]
    /\ nedges[NestedState] = 0
    /\ \/ /\ sizes \in [TMaps -> Ranges]
          /\ \A m \in TMaps \ {1} : RangeCode(sizes[m - 1]) <= RangeCode(sizes[m])
          /\ outEdge = [m \in TMaps |-> PlainOutEdge]
       \/ /\ sizes = [m \in TMaps |-> <<Concrete(TileSize + 1)>>]
          /\ \E o \in OutEdges \ {PlainOutEdge} : outEdge = [m \in TMaps |-> o]
    /\ PipelineIdle

\* tile_wcrs(graph_or_subgraph, validate_all, prefer_partial_parallelism) is
\* entered on a program, or on the state g (lines 144-155); its locals are
\* fresh.
StartTile(kind, p, g) ==
    /\ callKind' = kind
    /\ callPrefer' = p
    /\ prefer' = StatePrefer(kind, p)
    /\ tgraph' = g
    /\ tpc' = "discover"
    /\ scanned' = 0
    /\ anyWcr' = FALSE
    /\ edges_to_consider' = {}
    /\ maps_left' = {}
    /\ edges_left' = {}
    /\ transformed' = {}
    /\ UNCHANGED <<sizes, schedule, extracted, tiled, buffers, nedges,
                   outEdge>>

\* A caller invokes tile_wcrs on a program or on one of its states.
TileCall ==
    /\ tpc = "idle"
    /\ \E kind \in {"sdfg", "state"}, p \in {"None", "True", "False"} :
          StartTile(kind, p, TopState)
    /\ UNCHANGED <<fuseVars, pipeVars>>

\* Lines 159-181, one iteration: read the next edge of the scope.
ScanEdge ==
    /\ tpc = "discover"
    /\ scanned < nedges[tgraph]
    /\ \E w \in WcrKinds, s \in SrcKinds, d \in DstKinds, r \in Reasons :
       \E c \in SUBSET (IF r \in TMaps THEN Dims(r) ELSE {}) :
          LET e == [id |-> Cardinality(edges_to_consider) + 1, wcr |-> w, src |-> s, dst |-> d,
                    reason |-> r, cdims |-> c]
          IN /\ edges_to_consider' =
                    IF Considered(e) THEN edges_to_consider \cup {e}
                    ELSE edges_to_consider
             /\ anyWcr' = (anyWcr \/ w # "None")
    /\ scanned' = scanned + 1
    /\ UNCHANGED <<sizes, schedule, tpc, callKind, callPrefer, prefer,
                   maps_left, edges_left, transformed, extracted, tiled, buffers, tgraph, nedges, outEdge>>
    /\ UNCHANGED <<fuseVars, pipeVars>>

\* Lines 183-192: all edges read; resolve the preference from the
\* configuration when the call holds none, and collect the implicated maps.
ReadConfig ==
    /\ tpc = "discover"
    /\ scanned = nedges[tgraph]
    /\ \E cfg \in {"True", "False"} :
          prefer' = IF prefer = "None" THEN cfg ELSE prefer
    /\ maps_left' = {e.reason : e \in edges_to_consider}
    /\ edges_left' = edges_to_consider
    /\ tpc' = "extract"
    /\ UNCHANGED <<sizes, schedule, callKind, callPrefer, scanned, anyWcr,
                   edges_to_consider, transformed, extracted, tiled, buffers, tgraph, nedges, outEdge>>
    /\ UNCHANGED <<fuseVars, pipeVars>>

\* Lines 197-218, one iteration of the extraction loop.
ExtractDims ==
    /\ tpc = "extract"
    /\ prefer = "True"
    /\ \E m \in maps_left :
          LET dims == NonconflictedDims(m)
          IN /\ maps_left' = maps_left \ {m}
             /\ IF dims # {} /\ ~SmallRange(m, dims)
                THEN /\ extracted' = [extracted EXCEPT ![m] = dims]
                     /\ transformed' = transformed \cup {m}
                ELSE UNCHANGED <<extracted, transformed>>
    /\ UNCHANGED <<sizes, schedule, tpc, callKind, callPrefer, prefer, scanned,
                   anyWcr, edges_to_consider, edges_left, tiled, buffers, tgraph, nedges, outEdge>>
    /\ UNCHANGED <<fuseVars, pipeVars>>

\* The extraction loop is over, or was not entered (line 196).
EndExtract ==
    /\ tpc = "extract"
    /\ prefer = "False" \/ maps_left = {}
    /\ tpc' = "tile"
    /\ maps_left' = {}
    /\ UNCHANGED <<sizes, schedule, callKind, callPrefer, prefer, scanned,
                   anyWcr, edges_to_consider, edges_left, transformed,
                   extracted, tiled, buffers, tgraph, nedges, outEdge>>
    /\ UNCHANGED <<fuseVars, pipeVars>>

\* Lines 221-223: the edge's map was transformed already.
SkipTransformed ==
    /\ tpc = "tile"
    /\ \E e \in edges_left :
          /\ AlreadyTransformed(e.reason)
          /\ edges_left' = edges_left \ {e}
    /\ UNCHANGED <<sizes, schedule, tpc, callKind, callPrefer, prefer, scanned,
                   anyWcr, edges_to_consider, maps_left, transformed,
                   extracted, tiled, buffers, tgraph, nedges, outEdge>>
    /\ UNCHANGED <<fuseVars, pipeVars>>

\* Lines 224-235: the map is smaller than the tile size; make it sequential.
MakeSequential ==
    /\ tpc = "tile"
    /\ \E e \in edges_left :
          /\ ~AlreadyTransformed(e.reason)
          /\ SmallerThanTile(e.reason)
          /\ edges_left' = edges_left \ {e}
          /\ transformed' = transformed \cup {e.reason}
          /\ schedule' = [schedule EXCEPT ![e.reason] = "Sequential"]
    /\ UNCHANGED <<sizes, tpc, callKind, callPrefer, prefer, scanned, anyWcr,
                   edges_to_consider, maps_left, extracted, tiled, buffers, tgraph, nedges, outEdge>>
    /\ UNCHANGED <<fuseVars, pipeVars>>

\* Lines 224-272: tile the map and transform the edge leaving its exit.
TileMap ==
    /\ tpc = "tile"
    /\ \E e \in edges_left :
          /\ ~AlreadyTransformed(e.reason)
          /\ ~SmallerThanTile(e.reason)
          /\ edges_left' = edges_left \ {e}
          /\ transformed' = transformed \cup {e.reason}
          /\ tiled' = [tiled EXCEPT ![e.reason] = @ + 1]
          /\ LET t == OutEdgeTransform(outEdge[e.reason])
             IN IF t = "KeyError"
                THEN /\ tpc' = "raised"
                     /\ UNCHANGED buffers
                ELSE /\ buffers' = [buffers EXCEPT ![e.reason] = t]
                     /\ UNCHANGED tpc
    /\ UNCHANGED <<sizes, schedule, callKind, callPrefer, prefer, scanned,
                   anyWcr, edges_to_consider, maps_left, extracted, tgraph,
                   nedges, outEdge>>
    /\ UNCHANGED <<fuseVars, pipeVars>>

\* Lines 274-275: the tiling loop is over and tile_wcrs returns.
TileReturn ==
    /\ tpc = "tile"
    /\ edges_left = {}
    /\ tpc' = "done"
    /\ UNCHANGED <<sizes, schedule, callKind, callPrefer, prefer, scanned,
                   anyWcr, edges_to_consider, maps_left, edges_left,
                   transformed, extracted, tiled, buffers, tgraph, nedges, outEdge>>
    /\ UNCHANGED <<fuseVars, pipeVars>>

NextTile ==
    \/ TileCall
    \/ ScanEdge
    \/ ReadConfig
    \/ ExtractDims
    \/ EndExtract
    \/ SkipTransformed
    \/ MakeSequential
    \/ TileMap
    \/ TileReturn

SpecTile == InitTile /\ [][NextTile]_vars

\* --------------------------------------------------- properties: tile_wcrs
Implicated(m) == \E e \in edges_to_consider : e.reason = m

\* The dimensions of m no retained edge conflicts on.
FreeDims(m) ==
    {i \in Dims(m) :
        \A e \in edges_to_consider : e.reason = m => i \notin e.cdims}

Touched(m) ==
    \/ m \in transformed
    \/ extracted[m] # {}
    \/ tiled[m] > 0
    \/ schedule[m] = "Sequential"

\* C6: every retained edge carries a write-conflict combinator, does not
\* leave a scope exit or nested subprogram, does not enter a scope entry, is
\* conflicted by a map entry of the target subgraph and has a reduction
\* identity; only maps such an edge implicates are ever transformed.
C6_RetainedEdgesPassFilters ==
    /\ \A e \in edges_to_consider :
          /\ e.wcr # "None"
          /\ e.src \notin {"ExitNode", "NestedSDFG"}
          /\ e.dst # "EntryNode"
          /\ e.reason \in TMaps
          /\ reduction_identity(e.wcr) # "None"
    /\ \A m \in TMaps : Touched(m) => Implicated(m)

C6_Witness ==
    /\ tpc = "done"
    /\ Cardinality(edges_to_consider) > 1
    /\ \E m \in TMaps : tiled[m] > 0

\* C7: while no edge of the scope carries a write-conflict combinator the
\* tiler extracts nothing, tiles nothing, inserts no buffer and leaves every
\* schedule as it was.
C7_NoOpWithoutWcr ==
    ~anyWcr =>
        /\ \A m \in TMaps : ~Touched(m) /\ schedule[m] = "Default"
        /\ \A m \in TMaps : buffers[m] = "none"

C7_Witness == tpc = "done" /\ ~anyWcr /\ scanned > 1

\* The full iteration size of m is a concrete number at most the tile size.
FullSizeAtMostTile(m) ==
    /\ \A i \in Dims(m) : ~sizes[m][i].sym
    /\ ProdOver(sizes[m], Dims(m)).val <= TileSize

\* Every dimension of m is a concrete number below the tile size.
EveryDimBelowTile(m) ==
    \A i \in Dims(m) : ~sizes[m][i].sym /\ sizes[m][i].val < TileSize

\* C8 as stated: an implicated scope not handled by extraction is made
\* sequential exactly when its full iteration size, the product of all its
\* dimensions, is provably at or below the tile size, and is tiled otherwise.
C8_SequentialIffFullSizeAtMostTile ==
    tpc = "done" =>
        \A m \in transformed :
            extracted[m] = {} =>
                /\ (schedule[m] = "Sequential") <=> FullSizeAtMostTile(m)
                /\ (tiled[m] > 0) <=> ~FullSizeAtMostTile(m)

\* C8 amended: such a scope is made sequential exactly when every one of its
\* dimensions is provably below the tile size, and is tiled otherwise.
C8_SequentialIffEveryDimBelowTile ==
    tpc = "done" =>
        \A m \in transformed :
            extracted[m] = {} =>
                /\ (schedule[m] = "Sequential") <=> EveryDimBelowTile(m)
                /\ (tiled[m] > 0) <=> ~EveryDimBelowTile(m)

C8_Witness ==
    /\ tpc = "done"
    /\ \E m \in transformed :
          /\ Len(sizes[m]) > 1
          /\ schedule[m] = "Sequential"
          /\ ~FullSizeAtMostTile(m)

\* C9: on a one-dimensional scope of concrete size s the extraction-benefit
\* check and the sequential-shortcut check agree: s below the tile size is
\* "below" for both, s equal to or above it is "not below" for both.
C9_ThresholdBoundary ==
    tpc = "done" =>
        \A m \in TMaps :
            (Len(sizes[m]) = 1 /\ ~sizes[m][1].sym /\ Implicated(m)) =>
                LET s == sizes[m][1].val
                IN /\ (prefer = "True" /\ FreeDims(m) # {}) =>
                          ((extracted[m] = {}) <=> (s < TileSize))
                   /\ extracted[m] = {} =>
                          /\ (schedule[m] = "Sequential") <=> (s < TileSize)
                          /\ (tiled[m] > 0) <=> ~(s < TileSize)

C9_Witness ==
    /\ tpc = "done"
    /\ \E m \in TMaps, n \in TMaps :
          /\ sizes[m] = <<Concrete(TileSize)>>
          /\ sizes[n] = <<Concrete(TileSize)>>
          /\ extracted[m] # {}
          /\ tiled[n] > 0

\* C10: an indeterminate comparison never selects the sequential shortcut and
\* never rejects extraction; only a provably true "below" does either.
C10_IndeterminateIsNotBelow ==
    tpc = "done" =>
        \A m \in TMaps :
            Implicated(m) =>
                /\ (extracted[m] = {} /\ \E i \in Dims(m) : sizes[m][i].sym) =>
                      (tiled[m] > 0 /\ schedule[m] # "Sequential")
                /\ (prefer = "True" /\ \E i \in FreeDims(m) : sizes[m][i].sym) =>
                      extracted[m] = FreeDims(m)
                /\ schedule[m] = "Sequential" => EveryDimBelowTile(m)
                /\ (prefer = "True" /\ FreeDims(m) # {} /\ extracted[m] = {}) =>
                      /\ \A i \in FreeDims(m) : ~sizes[m][i].sym
                      /\ ProdOver(sizes[m], FreeDims(m)).val < TileSize

C10_Witness ==
    /\ tpc = "done"
    /\ \E m \in TMaps, n \in TMaps :
          /\ sizes[m][1].sym /\ tiled[m] > 0
          /\ \E i \in extracted[n] : sizes[n][i].sym

\* C11: whatever kind of scope the caller passes, a preference the caller
\* gives is the one the tiler works with, so extraction is enabled exactly
\* when the caller's argument is true; the configuration decides only when
\* the caller gave none.
C11_CallerPreferenceGoverns ==
    tpc \in {"extract", "tile", "done"} =>
        /\ callPrefer # "None" => prefer = callPrefer
        /\ callPrefer = "False" => \A m \in TMaps : extracted[m] = {}

\* The conditions the statement gives for an accumulation buffer.
AccumulateEligible(o) ==
    /\ ~o.empty
    /\ o.wcr # "None"
    /\ ~o.dynamic
    /\ reduction_identity(o.wcr) # "None"

\* C17: the edge leaving the exit of a tiled map, when it refers to a
\* non-streaming buffer, gets an accumulation buffer exactly when it is
\* non-empty, carries a write-conflict combinator, is not dynamic and has a
\* resolvable identity, whatever its non-atomic override flag says.
C17_AccumulateIffEligible ==
    \A m \in TMaps :
        (tiled[m] > 0 /\ ~outEdge[m].stream) =>
            ((buffers[m] = "AccumulateTransient")
                 <=> AccumulateEligible(outEdge[m]))

\* C18: a map is tiled at most once, an extracted map is neither tiled nor
\* made sequential, no map is both tiled and made sequential, and when the
\* call is over every implicated map has received one of the three
\* treatments.
C18_OneTreatmentOnce ==
    /\ \A m \in TMaps :
          /\ tiled[m] <= 1
          /\ extracted[m] # {} => (tiled[m] = 0 /\ schedule[m] # "Sequential")
          /\ ~(tiled[m] > 0 /\ schedule[m] = "Sequential")
    /\ tpc = "done" =>
          \A m \in TMaps :
              Implicated(m) =>
                  \/ extracted[m] # {}
                  \/ schedule[m] = "Sequential"
                  \/ tiled[m] = 1

C18_Witness ==
    /\ tpc = "done"
    /\ \E m \in TMaps :
          /\ Cardinality({e \in edges_to_consider : e.reason = m}) > 1
          /\ tiled[m] = 1

\* ================================ find_fast_library, set_fast_implementations
\* ------------------------------------------------------------------ bounds
MaxLibNodes == 2
MaxKinds == 1
\* the most implementations one kind of library node exposes
MaxImpls == 2
\* the most names a blocklist holds
MaxBlock == 1

LibNodes == 1..MaxLibNodes
Kinds == 1..MaxKinds
AllDevices == {"CPU", "GPU", "FPGA"}
VendorLibraries == {"MKL", "OpenBLAS"}
ImplNames == {"cuBLAS", "CUB", "MKL", "OpenBLAS", "pure", "CUDA (device)"}
\* node.implementation of a node no implementation was chosen for
Unset == "None"

Range(seq) == {seq[i] : i \in 1..Len(seq)}

find_fast_libraryBoth(dev, inst) ==
    IF dev = "GPU" THEN <<"cuBLAS", "CUB", "pure">>
    ELSE IF dev = "CPU"
         THEN (IF "MKL" \in inst THEN <<"MKL">> ELSE <<>>)
              \o (IF "OpenBLAS" \in inst THEN <<"OpenBLAS">> ELSE <<>>)
              \o <<"pure">>
         ELSE <<"pure">>

\* Lines 278-294, with inst the libraries whose is_installed() answers true.
find_fast_library(dev, inst) ==
    IF dev = "GPU" THEN <<"cuBLAS", "CUB", "pure">>
    ELSE IF dev = "CPU"
         THEN (IF "MKL" \in inst THEN <<"MKL">>
               ELSE IF "OpenBLAS" \in inst THEN <<"OpenBLAS">>
               ELSE <<>>)
              \o <<"pure">>
         ELSE <<"pure">>

\* Lines 338-343: the preference list without the blocklisted names.
ImplementationPrio(lib, bl) ==
    IF bl.none THEN lib
    ELSE LET allowed(i) == i \notin bl.names IN SelectSeq(lib, allowed)

\* Lines 350-352: the node asks to be specialized and supports no entry of
\* the list.
PreExpands(n, prio) ==
    /\ libnodes[n].default = "specialize"
    /\ kindImpls[libnodes[n].kind] \cap Range(prio) = {}

NotFound == "not found"

RECURSIVE LastSupported(_, _)
LastSupported(prio, impls) ==
    IF prio = <<>> THEN NotFound
    ELSE IF prio[Len(prio)] \in impls THEN prio[Len(prio)]
    ELSE LastSupported(SubSeq(prio, 1, Len(prio) - 1), impls)

RECURSIVE FirstSupported(_, _)
\* Lines 359-362: the first entry of the list the node supports.
FirstSupported(prio, impls) ==
    IF prio = <<>> THEN NotFound
    ELSE IF Head(prio) \in impls THEN Head(prio)
    ELSE FirstSupported(Tail(prio), impls)

\* Lines 338-365: set_fast_implementations(sdfg, dev, bl, ign) as one step.
SetFastImplementations(dev, bl, ign) ==
    LET lib == find_fast_library(dev, installed)
        prio == ImplementationPrio(lib, bl)
        left == {n \in present : ~PreExpands(n, prio)}
    IN /\ fast_library' = lib
       /\ implementation_prio' = prio
       /\ present' = left
       /\ implementation' =
             [n \in LibNodes |->
                 LET impl == FirstSupported(prio, kindImpls[libnodes[n].kind])
                 IN IF n \in left /\ libnodes[n].kind \notin ign
                       /\ impl # NotFound
                    THEN impl
                    ELSE implementation[n]]

LibNodeRecords ==
    [kind : Kinds, default : {"specialize", "pure"}, initial : {Unset, "pure"},
     top : BOOLEAN, devlevel : BOOLEAN]

ImplSets == {S \in SUBSET ImplNames : Cardinality(S) <= MaxImpls}

Blocklists ==
    {NoBlocklist} \cup
    {[none |-> FALSE, names |-> S] :
        S \in {T \in SUBSET ImplNames : Cardinality(T) <= MaxBlock}}

\* greedy_fuse and tile_wcrs at rest, on a program without maps that matter.
FuseIdle ==
    /\ alive = {}
    /\ label = <<>>
    /\ parent = <<>>
    /\ nsdfgAt = NoNode
    /\ allowTilingDefault = FALSE
    /\ scheduleInnermapsDefault = "None"
    /\ stencilUnrollDefault = FALSE
    /\ stack = <<>>
    /\ ncalls = 0
    /\ curArgs = NoArgs
    /\ repeat = FALSE
    /\ fusions = 0
    /\ lastReq = NoRequest

InitSelect ==
    /\ FuseIdle
    /\ TilerIdle
    /\ device \in AllDevices
    /\ installed \in SUBSET VendorLibraries
    /\ libnodes \in [LibNodes -> LibNodeRecords]
    /\ \A n \in LibNodes : libnodes[n].top /\ ~libnodes[n].devlevel
    /\ kindImpls \in [Kinds -> ImplSets]
    /\ implementation = [n \in LibNodes |-> libnodes[n].initial]
    /\ present = LibNodes
    /\ blocklist = NoBlocklist
    /\ ignore_types = {}
    /\ fast_library = <<>>
    /\ implementation_prio = <<>>
    /\ spc = "idle"
    /\ arrays = <<>>
    /\ arrays0 = <<>>
    /\ rpc = "off"
    /\ wcr_nonatomic = <<>>
    /\ wcr_nonatomic0 = <<>>
    /\ opts = NoOpts
    /\ ppc = "off"
    /\ trace = <<>>
    /\ tile_todo = <<>>
    /\ forced = {}

\* A caller invokes set_fast_implementations(sdfg, device, blocklist,
\* ignore_types).
SelectCall ==
    /\ spc = "idle"
    /\ \E bl \in Blocklists, ign \in SUBSET Kinds :
          /\ blocklist' = bl
          /\ ignore_types' = ign
          /\ SetFastImplementations(device, bl, ign)
    /\ spc' = "done"
    /\ UNCHANGED <<device, installed, libnodes, kindImpls, arrays, arrays0,
                   rpc, wcr_nonatomic, wcr_nonatomic0, opts, ppc, trace,
                   tile_todo, forced>>
    /\ UNCHANGED <<fuseVars, tilerVars>>

NextSelect == SelectCall

SpecSelect == InitSelect /\ [][NextSelect]_vars

\* ----------------------------------------------- properties: the selector
\* The vendor entries of the returned list: all but the last.
VendorPart == SubSeq(fast_library, 1, Len(fast_library) - 1)

\* C12: the list ends with the generic fallback, which occurs once; for GPU
\* it is the fixed vendor GPU entries and the fallback; for CPU it holds at
\* most one vendor library, installed and of the highest priority among the
\* installed ones; for any other device it is the fallback alone.
C12_PreferenceList ==
    spc = "done" =>
        /\ Len(fast_library) >= 1
        /\ fast_library[Len(fast_library)] = "pure"
        /\ Cardinality({i \in 1..Len(fast_library) : fast_library[i] = "pure"}) = 1
        /\ device = "GPU" => fast_library = <<"cuBLAS", "CUB", "pure">>
        /\ device = "CPU" =>
              /\ Len(VendorPart) <= 1
              /\ \A v \in Range(VendorPart) :
                    /\ v \in VendorLibraries \cap installed
                    /\ v = "OpenBLAS" => "MKL" \notin installed
              /\ installed # {} => Len(VendorPart) = 1
        /\ device \notin {"GPU", "CPU"} => fast_library = <<"pure">>

C12_Witness ==
    /\ spc = "done"
    /\ device = "CPU"
    /\ installed = VendorLibraries
    /\ fast_library = <<"MKL", "pure">>

NotBlocklisted(i) == blocklist.none \/ i \notin blocklist.names

\* Positions of the preference list that node n supports and the blocklist
\* allows.
Usable(n) ==
    {i \in 1..Len(fast_library) :
        /\ NotBlocklisted(fast_library[i])
        /\ fast_library[i] \in kindImpls[libnodes[n].kind]}

\* C13: after the call every remaining library node not of an ignored kind
\* that supports a non-blocklisted entry of the preference list has the first
\* such entry as its implementation, one that supports none keeps the
\* implementation it had, and no node was given a blocklisted implementation.
C13_FirstSupportedEntry ==
    spc = "done" =>
        /\ \A n \in present :
              libnodes[n].kind \notin ignore_types =>
                  IF Usable(n) # {}
                  THEN implementation[n] = fast_library[Min(Usable(n))]
                  ELSE implementation[n] = libnodes[n].initial
        /\ \A n \in LibNodes :
              implementation[n] # libnodes[n].initial =>
                  NotBlocklisted(implementation[n])

C13_Witness ==
    /\ spc = "done"
    /\ ~blocklist.none /\ blocklist.names # {}
    /\ \E n \in present :
          /\ libnodes[n].kind \notin ignore_types
          /\ Cardinality(Usable(n)) > 1
          /\ fast_library[1] \in blocklist.names
          /\ implementation[n] = fast_library[Min(Usable(n))]

\* =============================================== move_small_arrays_to_stack
\* ------------------------------------------------------------------ bounds
MaxArrays == 2

Arrays == 1..MaxArrays

\* array.total_size: a number; an expression over symbols that are all
\* constants of the array's program, with the value they give it; an
\* expression over free symbols; or a symbol-free expression that has no
\* order relation to a number.
ArraySizes ==
    {[form |-> "number", val |-> v] :
        v \in {TileSize - 1, TileSize, TileSize + 1}}
    \cup {[form |-> "constants", val |-> TileSize],
          [form |-> "symbols", val |-> 0],
          [form |-> "unordered", val |-> 0]}

ArrayRecords ==
    [sd : {"top", "nested"}, transient : BOOLEAN,
     kind : {"Array", "Stream", "View"},
     storage : {"Default", "Register", "GPU_Global"},
     lifetime : {"Scope", "Persistent"}, size : ArraySizes]

\* symbolic.issymbolic(size, constants) and symbolic.issymbolic(size).
IsSymbolic(size, withConstants) ==
    \/ size.form = "symbols"
    \/ size.form = "constants" /\ ~withConstants

\* Line 314: eval_size <= tile_size, or the TypeError of a relational without
\* a truth value.
LeqTileSize(size) ==
    IF size.form = "unordered" THEN "TypeError"
    ELSE IF size.val <= TileSize THEN "true" ELSE "false"

LtTileSize(size) ==
    IF size.form = "unordered" THEN "TypeError"
    ELSE IF size.val < TileSize THEN "true" ELSE "false"

ReclassifiedBelow(a) ==
    IF a.kind = "Stream" THEN a
    ELSE IF a.transient /\ a.storage = "Default" /\ a.lifetime = "Scope"
            /\ ~IsSymbolic(a.size, TRUE) /\ LtTileSize(a.size) = "true"
         THEN [a EXCEPT !.storage = "Register"]
         ELSE a

\* Lines 307-319: one array of sdfg.arrays_recursive().
Reclassified(a) ==
    IF a.kind = "Stream" THEN a
    ELSE IF a.transient /\ a.storage = "Default" /\ a.lifetime = "Scope"
            /\ ~IsSymbolic(a.size, TRUE) /\ LeqTileSize(a.size) = "true"
         THEN [a EXCEPT !.storage = "Register"]
         ELSE a

\* Lines 304-322: move_small_arrays_to_stack(sdfg).
MoveSmallArraysToStack(arrs) == [i \in DOMAIN arrs |-> Reclassified(arrs[i])]

InitStack ==
    /\ FuseIdle
    /\ TilerIdle
    /\ device = "none"
    /\ installed = {}
    /\ libnodes = <<>>
    /\ kindImpls = <<>>
    /\ implementation = <<>>
    /\ present = {}
    /\ blocklist = NoBlocklist
    /\ ignore_types = {}
    /\ fast_library = <<>>
    /\ implementation_prio = <<>>
    /\ spc = "off"
    /\ arrays \in [Arrays -> ArrayRecords]
    /\ arrays0 = arrays
    /\ rpc = "idle"
    /\ wcr_nonatomic = <<>>
    /\ wcr_nonatomic0 = <<>>
    /\ opts = NoOpts
    /\ ppc = "off"
    /\ trace = <<>>
    /\ tile_todo = <<>>
    /\ forced = {}

\* A caller invokes move_small_arrays_to_stack(sdfg).
MoveCall ==
    /\ rpc = "idle"
    /\ arrays' = MoveSmallArraysToStack(arrays)
    /\ rpc' = "done"
    /\ UNCHANGED <<device, installed, libnodes, kindImpls, implementation,
                   present, blocklist, ignore_types, fast_library,
                   implementation_prio, spc, arrays0, wcr_nonatomic,
                   wcr_nonatomic0, opts, ppc, trace, tile_todo, forced>>
    /\ UNCHANGED <<fuseVars, tilerVars>>

NextStack == MoveCall

SpecStack == InitStack /\ [][NextStack]_vars

\* -------------------------------------------- properties: the reclassifier
\* The element count evaluates to a number, given the program's constants.
ConcreteCount(size) == size.form \in {"number", "constants"}

\* C14: a buffer's storage becomes Register exactly when it was transient,
\* not a stream, of Default storage and Scope lifetime with a concrete element
\* count at most the tile size; nothing else about any buffer changes, and a
\* count without a decidable comparison leaves the buffer as it was.
C14_ReclassifiedIffSmall ==
    rpc = "done" =>
        \A i \in Arrays :
            LET a0 == arrays0[i]
                a == arrays[i]
                small == /\ a0.transient
                         /\ a0.kind # "Stream"
                         /\ a0.storage = "Default"
                         /\ a0.lifetime = "Scope"
                         /\ ConcreteCount(a0.size)
                         /\ a0.size.val <= TileSize
            IN /\ small => a = [a0 EXCEPT !.storage = "Register"]
               /\ ~small => a = a0
               /\ a0.size.form = "unordered" => a = a0

C14_Witness ==
    /\ rpc = "done"
    /\ \E i \in Arrays, j \in Arrays :
          /\ arrays0[i].size = [form |-> "number", val |-> TileSize]
          /\ arrays0[i].storage = "Default"
          /\ arrays[i].storage = "Register"
          /\ arrays0[j].size.form = "unordered"
          /\ arrays0[j].transient /\ arrays0[j].kind = "Array"
          /\ arrays0[j].storage = "Default" /\ arrays0[j].lifetime = "Scope"
          /\ arrays[j] = arrays0[j]

\* ============================================================ auto_optimize
\* The statements of auto_optimize in program order; "tiling" is the loop of
\* lines 489-490 while it runs.
StageOrderExpandFirst ==
    <<"simplify", "loop_to_map", "collapse1", "gpu", "fuse", "tile_fuse",
      "collapse2", "expand", "set_fast", "tile_wcrs", "tiling", "specialize",
      "move_small", "lifetime", "reset", "validate", "return", "returned">>

StageOrder ==
    <<"simplify", "loop_to_map", "collapse1", "gpu", "fuse", "tile_fuse",
      "collapse2", "set_fast", "expand", "tile_wcrs", "tiling", "specialize",
      "move_small", "lifetime", "reset", "validate", "return", "returned">>

NextStage(p) ==
    LET i == CHOOSE j \in 1..Len(StageOrder) : StageOrder[j] = p
    IN StageOrder[i + 1]

\* What auto_optimize never writes, and what belongs to direct calls of the
\* selector and the reclassifier.
pipeFixed == <<device, installed, libnodes, kindImpls, spc, arrays0, rpc,
               wcr_nonatomic0, opts>>

\* Lines 429-431: the node exposes 'CUDA (device)', is not inside a device-level
\* scope and lies at the top level of its state.
ForcedToDevice(n) ==
    /\ "CUDA (device)" \in kindImpls[libnodes[n].kind]
    /\ ~libnodes[n].devlevel
    /\ libnodes[n].top

LifetimeAssignedAnyStorage(a, dev) ==
    LET first == IF a.transient /\ a.kind # "View"
                    /\ ~IsSymbolic(a.size, FALSE)
                 THEN [a EXCEPT !.lifetime = "Persistent"]
                 ELSE a
    IN IF dev = "GPU" /\ a.sd = "top" /\ a.transient /\ a.kind # "View"
          /\ a.storage = "GPU_Global"
       THEN [first EXCEPT !.lifetime = "Persistent"]
       ELSE first

\* Lines 510-522 for one array of the program ("top") or of a nested program.
LifetimeAssigned(a, dev) ==
    LET first == IF a.transient /\ a.kind # "View"
                    /\ ~IsSymbolic(a.size, FALSE) /\ a.storage # "Register"
                 THEN [a EXCEPT !.lifetime = "Persistent"]
                 ELSE a
    IN IF dev = "GPU" /\ a.sd = "top" /\ a.transient /\ a.kind # "View"
          /\ a.storage = "GPU_Global"
       THEN [first EXCEPT !.lifetime = "Persistent"]
       ELSE first

ResetTopOnly(flags) ==
    [g \in DOMAIN flags |-> IF g = TopState THEN FALSE ELSE flags[g]]

\* Lines 525-528: every edge of every state, nested programs included.
ResetNonatomic(flags) == [g \in DOMAIN flags |-> FALSE]

\* list(sdfg.all_sdfgs_recursive()), each program named by its state.
AllSdfgs == <<TopState>> \o (IF nsdfgAt = NoNode THEN <<>> ELSE <<NestedState>>)

PlainArray ==
    [sd |-> "top", transient |-> FALSE, kind |-> "Array", storage |-> "Default",
     lifetime |-> "Scope", size |-> [form |-> "number", val |-> TileSize + 1]]

PlainLibNode ==
    [kind |-> 1, default |-> "pure", initial |-> Unset, top |-> TRUE,
     devlevel |-> FALSE]

DefaultOpts ==
    [validate |-> TRUE, validate_all |-> FALSE, subgraph_fuse |-> TRUE,
     trivial_fuse |-> TRUE, auto_parallelize |-> TRUE]

OptRecords ==
    [validate : BOOLEAN, validate_all : BOOLEAN, subgraph_fuse : BOOLEAN,
     trivial_fuse : BOOLEAN, auto_parallelize : BOOLEAN]

\* The program auto_optimize is given: a top-level state with the maps, the
\* write-conflicted maps among them in fusibility classes of their own, and a
\* NestedSDFG node whose program holds no map.
\* The write-conflicted scopes nest in one another and the remaining scopes
\* lie side by side in the innermost of them.
ChainWithSiblings ==
    [m \in Maps |-> IF m = 1 THEN TopState
                    ELSE IF m <= NumTMaps + 1 THEN m - 1 ELSE NumTMaps]

InitPipe ==
    /\ nsdfgAt = TopState
    /\ allowTilingDefault = FALSE
    /\ scheduleInnermapsDefault = "None"
    /\ stencilUnrollDefault = FALSE
    /\ stack = <<>>
    /\ ncalls = 0
    /\ curArgs = NoArgs
    /\ repeat = FALSE
    /\ fusions = 0
    /\ lastReq = NoRequest
    /\ sizes = [m \in TMaps |-> IF m = 1 THEN <<Concrete(TileSize - 1)>>
                                ELSE <<Concrete(TileSize + 1)>>]
    /\ schedule = [m \in TMaps |-> "Default"]
    /\ tpc = "idle"
    /\ callKind = "none"
    /\ callPrefer = "None"
    /\ prefer = "None"
    /\ scanned = 0
    /\ anyWcr = FALSE
    /\ edges_to_consider = {}
    /\ maps_left = {}
    /\ edges_left = {}
    /\ transformed = {}
    /\ extracted = [m \in TMaps |-> {}]
    /\ tiled = [m \in TMaps |-> 0]
    /\ buffers = [m \in TMaps |-> "none"]
    /\ tgraph = TopState
    /\ device \in AllDevices
    /\ \/ \* every combination of options, on a state with one data edge
          /\ alive = Maps
          /\ opts \in OptRecords
          /\ wcr_nonatomic \in [{TopState, NestedState} -> BOOLEAN]
          /\ nedges = [g \in {TopState, NestedState} |->
                          IF g = TopState THEN 1 ELSE 0]
          /\ libnodes = [n \in LibNodes |-> PlainLibNode]
          /\ kindImpls = [k \in Kinds |-> {"pure"}]
          /\ arrays = [i \in Arrays |-> PlainArray]
       \/ \* every descriptor of the first array
          /\ alive = TMaps
          /\ opts = DefaultOpts
          /\ wcr_nonatomic = [g \in {TopState, NestedState} |-> FALSE]
          /\ nedges = [g \in {TopState, NestedState} |-> 0]
          /\ libnodes = [n \in LibNodes |-> PlainLibNode]
          /\ kindImpls = [k \in Kinds |-> {"pure"}]
          /\ arrays \in [Arrays -> ArrayRecords]
          /\ \A i \in Arrays \ {1} : arrays[i] = PlainArray
       \/ \* every placement of the library nodes
          /\ alive = TMaps
          /\ opts = DefaultOpts
          /\ wcr_nonatomic = [g \in {TopState, NestedState} |-> FALSE]
          /\ nedges = [g \in {TopState, NestedState} |-> 0]
          /\ libnodes \in [LibNodes -> LibNodeRecords]
          /\ \A n \in LibNodes : libnodes[n].initial = Unset
          /\ kindImpls \in [Kinds -> ImplSets]
          /\ arrays = [i \in Arrays |-> PlainArray]
    /\ label = [m \in alive |-> 1]
    /\ parent = [m \in alive |-> ChainWithSiblings[m]]
    /\ installed = {}
    /\ implementation = [n \in LibNodes |-> libnodes[n].initial]
    /\ present = LibNodes
    /\ blocklist = NoBlocklist
    /\ ignore_types = {}
    /\ fast_library = <<>>
    /\ implementation_prio = <<>>
    /\ spc = "off"
    /\ arrays0 = arrays
    /\ rpc = "off"
    /\ wcr_nonatomic0 = wcr_nonatomic
    /\ outEdge = [m \in TMaps |->
                     [PlainOutEdge EXCEPT !.nonatomic = wcr_nonatomic[TopState]]]
    /\ ppc = "simplify"
    /\ trace = <<>>
    /\ tile_todo = <<>>
    /\ forced = {}

\* Lines 398-404: strict transformations and TrivialMapElimination.
PipeSimplify ==
    /\ ppc = "simplify"
    /\ ppc' = NextStage(ppc)
    /\ trace' = Append(trace, "simplify")
    /\ UNCHANGED <<pipeFixed, implementation, present, blocklist, ignore_types,
                   fast_library, implementation_prio, arrays, wcr_nonatomic,
                   tile_todo, forced>>
    /\ UNCHANGED <<fuseVars, tilerVars>>

\* Lines 405-414: LoopToMap, if auto_parallelize.
PipeLoopToMap ==
    /\ ppc = "loop_to_map"
    /\ ppc' = NextStage(ppc)
    /\ trace' = IF opts.auto_parallelize THEN Append(trace, "loop_to_map")
                ELSE trace
    /\ UNCHANGED <<pipeFixed, implementation, present, blocklist, ignore_types,
                   fast_library, implementation_prio, arrays, wcr_nonatomic,
                   tile_todo, forced>>
    /\ UNCHANGED <<fuseVars, tilerVars>>

\* Lines 415-419: MapCollapse.
PipeCollapse1 ==
    /\ ppc = "collapse1"
    /\ ppc' = NextStage(ppc)
    /\ trace' = Append(trace, "collapse")
    /\ UNCHANGED <<pipeFixed, implementation, present, blocklist, ignore_types,
                   fast_library, implementation_prio, arrays, wcr_nonatomic,
                   tile_todo, forced>>
    /\ UNCHANGED <<fuseVars, tilerVars>>

\* Lines 421-439: on GPU, force 'CUDA (device)' on the top-level library
\* nodes that expose it, remember their types, lower the program and apply
\* the strict transformations again.
PipeGpu ==
    /\ ppc = "gpu"
    /\ ppc' = NextStage(ppc)
    /\ IF device = "GPU"
       THEN LET F == {n \in present : ForcedToDevice(n)}
            IN /\ implementation' =
                      [n \in LibNodes |-> IF n \in F THEN "CUDA (device)"
                                          ELSE implementation[n]]
               /\ ignore_types' = {libnodes[n].kind : n \in F}
               /\ forced' = F
               /\ trace' = trace \o <<"lower", "simplify">>
       ELSE /\ ignore_types' = {}
            /\ UNCHANGED <<implementation, forced, trace>>
    /\ UNCHANGED <<pipeFixed, present, blocklist, fast_library,
                   implementation_prio, arrays, wcr_nonatomic, tile_todo>>
    /\ UNCHANGED <<fuseVars, tilerVars>>

\* Lines 441-458 and 467-468: greedy_fuse in fuse mode if subgraph_fuse,
\* else MapFusion if trivial_fuse.
PipeFuse ==
    /\ ppc = "fuse"
    /\ ppc' = NextStage(ppc)
    /\ IF opts.subgraph_fuse
       THEN /\ StartFuse(opts.validate_all, device, TRUE, FALSE)
            /\ trace' = Append(trace, "fuse")
       ELSE IF opts.trivial_fuse
       THEN /\ \E rep \in MapFusionOutcomes(TopState) : ApplyMerges(rep)
            /\ trace' = Append(trace, "map_fusion")
            /\ UNCHANGED <<allowTilingDefault, scheduleInnermapsDefault,
                           stencilUnrollDefault, stack, ncalls, curArgs,
                           repeat, fusions, lastReq>>
       ELSE UNCHANGED <<fuseVars, trace>>
    /\ UNCHANGED <<pipeFixed, implementation, present, blocklist, ignore_types,
                   fast_library, implementation_prio, arrays, wcr_nonatomic,
                   tile_todo, forced>>
    /\ UNCHANGED tilerVars

\* Lines 460-465: greedy_fuse in tile mode, not recursive, if subgraph_fuse.
PipeTileFuse ==
    /\ ppc = "tile_fuse"
    /\ stack = <<>>
    /\ ppc' = NextStage(ppc)
    /\ IF opts.subgraph_fuse
       THEN /\ StartFuse(opts.validate_all, device, FALSE, TRUE)
            /\ trace' = Append(trace, "tile_fuse")
       ELSE UNCHANGED <<fuseVars, trace>>
    /\ UNCHANGED <<pipeFixed, implementation, present, blocklist, ignore_types,
                   fast_library, implementation_prio, arrays, wcr_nonatomic,
                   tile_todo, forced>>
    /\ UNCHANGED tilerVars

\* Lines 472-476: MapCollapse.
PipeCollapse2 ==
    /\ ppc = "collapse2"
    /\ stack = <<>>
    /\ ppc' = NextStage(ppc)
    /\ trace' = Append(trace, "collapse")
    /\ UNCHANGED <<pipeFixed, implementation, present, blocklist, ignore_types,
                   fast_library, implementation_prio, arrays, wcr_nonatomic,
                   tile_todo, forced>>
    /\ UNCHANGED <<fuseVars, tilerVars>>

\* Lines 483-484: set_fast_implementations(sdfg, device,
\* ignore_types=ignore_types), with the default blocklist [].
PipeSetFast ==
    /\ ppc = "set_fast"
    /\ ppc' = NextStage(ppc)
    /\ blocklist' = [none |-> FALSE, names |-> {}]
    /\ SetFastImplementations(device, [none |-> FALSE, names |-> {}],
                              ignore_types)
    /\ trace' = Append(trace, "select")
    /\ UNCHANGED <<pipeFixed, ignore_types, arrays, wcr_nonatomic, tile_todo,
                   forced>>
    /\ UNCHANGED <<fuseVars, tilerVars>>

\* Line 486: sdfg.expand_library_nodes().
PipeExpand ==
    /\ ppc = "expand"
    /\ ppc' = NextStage(ppc)
    /\ trace' = Append(trace, "expand")
    /\ UNCHANGED <<pipeFixed, implementation, present, blocklist, ignore_types,
                   fast_library, implementation_prio, arrays, wcr_nonatomic,
                   tile_todo, forced>>
    /\ UNCHANGED <<fuseVars, tilerVars>>

\* Line 489: the list of programs to tile.
PipeTileBegin ==
    /\ ppc = "tile_wcrs"
    /\ ppc' = NextStage(ppc)
    /\ tile_todo' = AllSdfgs
    /\ trace' = Append(trace, "tile_wcrs")
    /\ UNCHANGED <<pipeFixed, implementation, present, blocklist, ignore_types,
                   fast_library, implementation_prio, arrays, wcr_nonatomic,
                   forced>>
    /\ UNCHANGED <<fuseVars, tilerVars>>

\* Line 490: tile_wcrs(nsdfg, validate_all) for the next program.
PipeTileNext ==
    /\ ppc = "tiling"
    /\ tpc \in {"idle", "done"}
    /\ tile_todo # <<>>
    /\ StartTile("sdfg", "None", Head(tile_todo))
    /\ tile_todo' = Tail(tile_todo)
    /\ UNCHANGED <<pipeFixed, implementation, present, blocklist, ignore_types,
                   fast_library, implementation_prio, arrays, wcr_nonatomic,
                   ppc, trace, forced>>
    /\ UNCHANGED fuseVars

\* The loop of lines 489-490 is over.
PipeTileEnd ==
    /\ ppc = "tiling"
    /\ tpc \in {"idle", "done"}
    /\ tile_todo = <<>>
    /\ ppc' = NextStage(ppc)
    /\ UNCHANGED <<pipeFixed, implementation, present, blocklist, ignore_types,
                   fast_library, implementation_prio, arrays, wcr_nonatomic,
                   trace, tile_todo, forced>>
    /\ UNCHANGED <<fuseVars, tilerVars>>

\* Lines 494-505: openmp_sections off, and sdfg.specialize(known_symbols).
PipeSpecialize ==
    /\ ppc = "specialize"
    /\ ppc' = NextStage(ppc)
    /\ trace' = Append(trace, "specialize")
    /\ UNCHANGED <<pipeFixed, implementation, present, blocklist, ignore_types,
                   fast_library, implementation_prio, arrays, wcr_nonatomic,
                   tile_todo, forced>>
    /\ UNCHANGED <<fuseVars, tilerVars>>

\* Lines 507-508: move_small_arrays_to_stack(sdfg).
PipeMoveSmall ==
    /\ ppc = "move_small"
    /\ ppc' = NextStage(ppc)
    /\ arrays' = MoveSmallArraysToStack(arrays)
    /\ trace' = Append(trace, "reclassify")
    /\ UNCHANGED <<pipeFixed, implementation, present, blocklist, ignore_types,
                   fast_library, implementation_prio, wcr_nonatomic, tile_todo,
                   forced>>
    /\ UNCHANGED <<fuseVars, tilerVars>>

\* Lines 510-522: the lifetime of the transient arrays.
PipeLifetime ==
    /\ ppc = "lifetime"
    /\ ppc' = NextStage(ppc)
    /\ arrays' = [i \in DOMAIN arrays |-> LifetimeAssigned(arrays[i], device)]
    /\ trace' = Append(trace, "lifetime")
    /\ UNCHANGED <<pipeFixed, implementation, present, blocklist, ignore_types,
                   fast_library, implementation_prio, wcr_nonatomic, tile_todo,
                   forced>>
    /\ UNCHANGED <<fuseVars, tilerVars>>

\* Lines 524-528: on GPU, reset wcr_nonatomic on every edge.
PipeResetNonatomic ==
    /\ ppc = "reset"
    /\ ppc' = NextStage(ppc)
    /\ IF device = "GPU"
       THEN /\ wcr_nonatomic' = ResetNonatomic(wcr_nonatomic)
            /\ outEdge' =
                  [m \in DOMAIN outEdge |->
                      [outEdge[m] EXCEPT
                          !.nonatomic = ResetNonatomic(wcr_nonatomic)[TopState]]]
            /\ trace' = Append(trace, "reset_nonatomic")
       ELSE UNCHANGED <<wcr_nonatomic, outEdge, trace>>
    /\ UNCHANGED <<pipeFixed, implementation, present, blocklist, ignore_types,
                   fast_library, implementation_prio, arrays, tile_todo, forced>>
    /\ UNCHANGED <<sizes, schedule, tpc, callKind, callPrefer, prefer, scanned,
                   anyWcr, edges_to_consider, maps_left, edges_left,
                   transformed, extracted, tiled, buffers, tgraph, nedges>>
    /\ UNCHANGED fuseVars

\* Lines 530-532: validate if validate or validate_all.
PipeValidate ==
    /\ ppc = "validate"
    /\ ppc' = NextStage(ppc)
    /\ trace' = IF opts.validate \/ opts.validate_all
                THEN Append(trace, "validate") ELSE trace
    /\ UNCHANGED <<pipeFixed, implementation, present, blocklist, ignore_types,
                   fast_library, implementation_prio, arrays, wcr_nonatomic,
                   tile_todo, forced>>
    /\ UNCHANGED <<fuseVars, tilerVars>>

\* Line 534: return sdfg.
PipeReturn ==
    /\ ppc = "return"
    /\ ppc' = NextStage(ppc)
    /\ UNCHANGED <<pipeFixed, implementation, present, blocklist, ignore_types,
                   fast_library, implementation_prio, arrays, wcr_nonatomic,
                   trace, tile_todo, forced>>
    /\ UNCHANGED <<fuseVars, tilerVars>>

NextPipe ==
    \/ PipeSimplify
    \/ PipeLoopToMap
    \/ PipeCollapse1
    \/ PipeGpu
    \/ PipeFuse
    \/ PipeTileFuse
    \/ PipeCollapse2
    \/ PipeSetFast
    \/ PipeExpand
    \/ PipeTileBegin
    \/ PipeTileNext
    \/ PipeTileEnd
    \/ PipeSpecialize
    \/ PipeMoveSmall
    \/ PipeLifetime
    \/ PipeResetNonatomic
    \/ PipeValidate
    \/ PipeReturn
    \/ SdfgRecurse
    \/ SdfgReturn
    \/ EnterGraph
    \/ FuseCandidates
    \/ SkipSingleton
    \/ EndLoop
    \/ NestedRecurse
    \/ FinishGraph
    \/ GraphReturn
    \/ ScanEdge
    \/ ReadConfig
    \/ ExtractDims
    \/ EndExtract
    \/ SkipTransformed
    \/ MakeSequential
    \/ TileMap
    \/ TileReturn

SpecPipe == InitPipe /\ [][NextPipe]_vars

\* ----------------------------------------------- properties: the pipeline
\* The stages the statement names, in the order it gives them.
ClaimedOrder ==
    <<"simplify", "loop_to_map", "collapse", "lower", "fuse", "tile_fuse",
      "collapse", "select", "expand", "tile_wcrs", "specialize", "reclassify",
      "lifetime", "validate">>

\* The stages run so far, those the statement does not name left out.
NamedTrace ==
    LET named(x) == x \in Range(ClaimedOrder) IN SelectSeq(trace, named)

\* The stages a run is to execute, greedy fusion included or not.
ExpectedStages(fusion) ==
    LET runs(x) ==
            CASE x = "loop_to_map" -> opts.auto_parallelize
              [] x = "lower" -> device = "GPU"
              [] x \in {"fuse", "tile_fuse"} -> fusion
              [] x = "validate" -> opts.validate \/ opts.validate_all
              [] OTHER -> TRUE
    IN SelectSeq(ClaimedOrder, runs)

IsPrefix(a, b) == Len(a) <= Len(b) /\ a = SubSeq(b, 1, Len(a))

\* C15 as stated: every run executes the named stages in the fixed order,
\* greedy fusion in fuse mode and then in tile mode among them, each once, and
\* a final validation that is not suppressed is the last action before the
\* return.
C15_AllStagesInFixedOrder ==
    /\ IsPrefix(NamedTrace, ExpectedStages(TRUE))
    /\ ppc = "returned" =>
          /\ NamedTrace = ExpectedStages(TRUE)
          /\ opts.validate => trace[Len(trace)] = "validate"

\* The i-th record was made inside a greedy fusion pass: since the pass
\* began only simplification and plain map fusion have run.
InFusionPass(i) ==
    \E j \in 1..(i - 1) :
        /\ trace[j] \in {"fuse", "tile_fuse"}
        /\ \A k \in (j + 1)..i : trace[k] \in {"simplify", "map_fusion"}

\* The i-th record is the simplification that directly follows the lowering.
AfterLowering(i) == i > 1 /\ trace[i] = "simplify" /\ trace[i - 1] = "lower"

\* The named stages run so far, without the simplifications that lowering
\* and the greedy fusion passes bring along.
StagesRun ==
    LET I == {i \in 1..Len(trace) :
                /\ trace[i] \in Range(ClaimedOrder)
                /\ ~InFusionPass(i)
                /\ ~AfterLowering(i)}
    IN [n \in 1..Cardinality(I) |->
           trace[CHOOSE i \in I : Cardinality({j \in I : j <= i}) = n]]

\* C15 amended: the stages run in the fixed order, greedy fusion in fuse
\* mode and then in tile mode only when subgraph fusion is enabled (without
\* it plain map fusion runs once in their place if trivial fusion is
\* enabled, and nothing otherwise); simplification runs again directly after
\* the lowering and at the start of each greedy fusion pass, and apart
\* from that no stage runs twice out of the order; a final validation that
\* is not suppressed is the last action before the return.
C15_StagesInFixedOrder ==
    /\ IsPrefix(StagesRun, ExpectedStages(opts.subgraph_fuse))
    /\ \A i \in 1..(Len(trace) - 1) :
          trace[i] \in {"lower", "fuse", "tile_fuse"} =>
              trace[i + 1] = "simplify"
    /\ ~opts.subgraph_fuse =>
          Len(SelectSeq(trace, LAMBDA x : x = "map_fusion"))
              <= (IF opts.trivial_fuse THEN 1 ELSE 0)
    /\ ppc = "returned" =>
          /\ StagesRun = ExpectedStages(opts.subgraph_fuse)
          /\ opts.validate => trace[Len(trace)] = "validate"

C15_Witness ==
    /\ ppc = "returned"
    /\ device = "GPU"
    /\ opts.auto_parallelize /\ opts.subgraph_fuse /\ opts.validate
    /\ StagesRun = ClaimedOrder
    /\ Len(SelectSeq(trace, LAMBDA x : x = "simplify")) >= 4

\* C16: once lifetimes are assigned, every transient buffer of concrete size
\* and storage other than Register is Persistent, and on GPU every transient
\* GPU_Global buffer is Persistent, in the program and in nested programs,
\* whatever its size.
C16_PersistentLifetime ==
    ppc \in {"reset", "validate", "return", "returned"} =>
        \A i \in Arrays :
            LET a == arrays[i]
            IN (a.transient /\ a.kind # "View") =>
                  /\ (a.size.form = "number" /\ a.storage # "Register") =>
                        a.lifetime = "Persistent"
                  /\ (device = "GPU" /\ a.storage = "GPU_Global") =>
                        a.lifetime = "Persistent"

\* C19: in a GPU run, once the selector has run, every library node it
\* skipped for its kind is one the GPU branch forced to 'CUDA (device)', and
\* every node so forced still has that implementation.
C19_IgnoredWereForced ==
    (device = "GPU"
     /\ ppc \in {"expand", "tile_wcrs", "tiling", "specialize", "move_small",
                 "lifetime", "reset", "validate", "return", "returned"}) =>
        /\ \A n \in present :
              libnodes[n].kind \in ignore_types => n \in forced
        /\ \A n \in forced \cap present :
              implementation[n] = "CUDA (device)"

\* C20: after a GPU run no edge of the program or of a nested program has
\* the non-atomic override set; after a run for another device every edge
\* has the flag it started with.
C20_NonatomicReset ==
    ppc \in {"validate", "return", "returned"} =>
        IF device = "GPU"
        THEN /\ \A g \in DOMAIN wcr_nonatomic : ~wcr_nonatomic[g]
             /\ \A m \in TMaps : ~outEdge[m].nonatomic
        ELSE /\ wcr_nonatomic = wcr_nonatomic0
             /\ \A m \in TMaps :
                   outEdge[m].nonatomic = wcr_nonatomic0[TopState]

C20_Witness ==
    /\ ppc = "returned"
    /\ device = "GPU"
    /\ wcr_nonatomic0[TopState] /\ wcr_nonatomic0[NestedState]
    /\ ~wcr_nonatomic[TopState] /\ ~wcr_nonatomic[NestedState]

\* C21: a buffer the reclassifier moved to Register still has Scope lifetime
\* after lifetime assignment, on every device, and a buffer that leaves the
\* pipeline with Register storage and Persistent lifetime had that lifetime
\* when it entered.
C21_RegisterKeepsScope ==
    \A i \in Arrays :
        /\ (ppc \in {"lifetime", "reset", "validate", "return", "returned"}
            /\ arrays0[i].storage # "Register"
            /\ arrays[i].storage = "Register") =>
               arrays[i].lifetime = "Scope"
        /\ (ppc \in {"return", "returned"}
            /\ arrays[i].storage = "Register"
            /\ arrays[i].lifetime = "Persistent") =>
               arrays0[i].lifetime = "Persistent"

C21_Witness ==
    /\ ppc = "returned"
    /\ device = "GPU"
    /\ \E i \in Arrays :
          /\ arrays0[i].storage = "Default"
          /\ arrays0[i].kind = "Array"
          /\ arrays0[i].size.form = "number"
          /\ arrays[i].storage = "Register"
          /\ arrays[i].lifetime = "Scope"

====
